---- MODULE Spec2Model ----
(***************************************************************************)
(* Month-end tracker (src/index.js, current version at lines 380-737, with *)
(* the data layer at lines 739-793 and the operation wrappers of           *)
(* src/utils/logger.js).                                                   *)
(*                                                                         *)
(* One action is one iteration of the polling loop of                      *)
(* checkAndPollTapoDevices; the answers of the database and of the energy  *)
(* API during that iteration are the action's inputs.  The display-only    *)
(* field alias of a device is left out.                                    *)
(***************************************************************************)
EXTENDS Integers, Sequences, FiniteSets, TLC

\* ------------------------------------------------------------------ bounds
MaxClock == 6          \* minutes after 23:55 the clock is followed for

\* ------------------------------------------------------------ value domains
Devices == {"A", "B"}
ReadingValues == {0, 20}     \* month_energy values the energy API may return
BaselineValues == {0, 5}     \* usage.consumption values the database may hold

UsageRecordOf(d) == "u" \o d     \* active_device.usage_record_id
IpOf(d) == "ip" \o d             \* device.ip_address
UsageRecords == {UsageRecordOf(d) : d \in Devices}
Ips == {IpOf(d) : d \in Devices}

VARIABLES
  pc,                          \* "idle": before the month-end invocation, "loop": top of while (true),
                               \* "delay": in await delay(), "done": the loop was left,
                               \* "returned": the invocation returned
  clock,                       \* minutes elapsed since 23:55 of the invocation day
  minuteExecutionStatus,       \* Map minuteKey -> success, local to one invocation
  trackingDevices,             \* Map device_id -> entry, in insertion order
  is_tracking_previous_month,  \* usage.is_tracking_previous_month per usage record
  previous_month_accumulated,  \* usage.previous_month_accumulated per usage record
  finalizeCalls,               \* calls of finalizeMonthEndTracking in this invocation
  minuteFailed,                \* the action of the minute the clock shows has returned failure
                               \* in this invocation (observation only)
  last                         \* what the current loop iteration has done (observation only)

vars == <<pc, clock, minuteExecutionStatus, trackingDevices,
          is_tracking_previous_month, previous_month_accumulated,
          finalizeCalls, minuteFailed, last>>

\* ------------------------------------------------------------------- clock
getMinutes(c) == (55 + c) % 60
getHours(c) == (23 + ((55 + c) \div 60)) % 24
minuteKeyOf(c) == <<getHours(c), getMinutes(c)>>
MonitoringWindow == {55, 56, 57, 58, 59}
InWindow(m) == m \in MonitoringWindow
\* Variant: the finalization branch is taken a minute early as well.
IsFinalizationMinute_Early(m) == m >= 58
IsFinalizationMinute(m) == m = 59
\* Variant: the exit test looks for minute 1.
IsNewHour_OffByOne(m) == m = 1

IsNewHour(m) == m = 0

\* --------------------------------------------------------- Map operations
Ids(t) == {t[i].device_id : i \in 1..Len(t)}
MapHas(t, id) == id \in Ids(t)
MapGet(t, id) == t[CHOOSE i \in 1..Len(t) : t[i].device_id = id]
MapDelete(t, id) == SelectSeq(t, LAMBDA e : e.device_id # id)
\* Variant: set always appends, also for a key the map already has.
MapSet_Appends(t, id, e) == Append(t, e)

MapSet(t, id, e) ==
  IF MapHas(t, id)
    THEN [i \in 1..Len(t) |-> IF t[i].device_id = id THEN e ELSE t[i]]
    ELSE Append(t, e)


\* ------------------------------------------ operation wrappers (logger.js)
\* executeOperation: success is "the operation did not throw"; the value the
\* operation returns is dropped.
executeOperation(threw) == [success |-> ~threw]
executeDeviceOperation(threw) == executeOperation(threw)

\* executeBatchOperation: the counting of one item's result, and the result
\* object built from the counts.
BatchCount(st, result) ==
  IF result.success
    THEN [st EXCEPT !.successCount = @ + 1]
    ELSE [st EXCEPT !.failureCount = @ + 1]
BatchResult(st) ==
  [successCount |-> st.successCount, failureCount |-> st.failureCount,
   hasErrors |-> st.failureCount > 0]

\* ---------------------------------------------------- data layer (data.js)
\* Variant: a failed flag write is rethrown to the caller.
updateTrackingFlag_Rethrows(flags, usageRecordId, isTracking, ok) ==
  [flags |-> IF ok THEN [flags EXCEPT ![usageRecordId] = isTracking] ELSE flags,
   threw |-> ~ok]

\* ok says whether the SQL statement went through; both writers catch the
\* error and log it, so neither throws.
updateTrackingFlag(flags, usageRecordId, isTracking, ok) ==
  [flags |-> IF ok THEN [flags EXCEPT ![usageRecordId] = isTracking] ELSE flags,
   threw |-> FALSE]

storePreviousMonthAccumulated(flags, acc, usageRecordId, accumulatedValue, ok) ==
  [flags |-> IF ok THEN [flags EXCEPT ![usageRecordId] = FALSE] ELSE flags,
   acc   |-> IF ok THEN [acc EXCEPT ![usageRecordId] = accumulatedValue] ELSE acc,
   threw |-> FALSE]

\* getCurrentMonthEnergy: throws when the request or the parse failed.
getCurrentMonthEnergy(ip, env) ==
  [threw |-> ip \in env.energyFails,
   month_energy |-> IF ip \in env.energyFails THEN 0 ELSE env.energyVals[ip]]

\* ------------------------------------------------------------- Sync Engine
\* currentActiveDeviceIds, and the addresses of the listed devices.
ActiveIds(a) == {a[i].device_id : i \in DOMAIN a}
ActiveIps(a) == {a[i].ip_address : i \in DOMAIN a}

\* What one batch item did, in the order the items ran: the kind of item, the
\* device, and whether it issued an energy read and a tracking-flag write.
Step(op, deviceId, read, flagWrite) ==
  [op |-> op, device_id |-> deviceId, read |-> read, flagWrite |-> flagWrite]

\* Variant: the refresh takes the reading as the new baseline too.
RefreshedEntry_Rebases(trackedDevice, month_energy) ==
  [trackedDevice EXCEPT !.month_energy = month_energy, !.consumption = month_energy]

\* { ...trackedDevice, month_energy: month_energy }
RefreshedEntry(trackedDevice, month_energy) ==
  [trackedDevice EXCEPT !.month_energy = month_energy]

\* Variant: the entry is overwritten also when the read threw.
TrackerAfterRefresh_SetsAnyway(tracker, trackedDevice, r) ==
  MapSet(tracker, trackedDevice.device_id,
         RefreshedEntry(trackedDevice, r.month_energy))

\* UPDATE-MONTH-ENERGY: trackingDevices.set comes after the awaited read, so
\* a read that throws leaves the tracker as it was.
TrackerAfterRefresh(tracker, trackedDevice, r) ==
  IF r.threw THEN tracker
  ELSE MapSet(tracker, trackedDevice.device_id,
              RefreshedEntry(trackedDevice, r.month_energy))

\* One item of the SYNC-TRACKED-DEVICES batch.
SyncTrackedItem(trackedDevice, st, activeIds, env) ==
  LET deviceId == trackedDevice.device_id IN
  IF deviceId \notin activeIds
    THEN \* REMOVE-FROM-TRACKING
      LET w == updateTrackingFlag(st.flags, trackedDevice.usage_record_id, FALSE,
                                  env.flagOk[trackedDevice.usage_record_id])
          t == IF w.threw THEN st.trackingDevices
                          ELSE MapDelete(st.trackingDevices, deviceId)
      IN BatchCount([st EXCEPT !.flags = w.flags, !.trackingDevices = t,
                               !.removed = @ \cup {deviceId},
                               !.steps = Append(@, Step("remove", deviceId, FALSE, TRUE))],
                    executeDeviceOperation(w.threw))
    ELSE \* UPDATE-MONTH-ENERGY
      LET r == getCurrentMonthEnergy(trackedDevice.ip_address, env)
          t == TrackerAfterRefresh(st.trackingDevices, trackedDevice, r)
      IN BatchCount([st EXCEPT !.trackingDevices = t,
                               !.refreshed = @ \cup {deviceId},
                               !.steps = Append(@, Step("refresh", deviceId, TRUE, FALSE))],
                    executeDeviceOperation(r.threw))

RECURSIVE SyncTrackedBatch(_, _, _, _)
SyncTrackedBatch(items, st, activeIds, env) ==
  IF items = <<>> THEN st
  ELSE SyncTrackedBatch(Tail(items), SyncTrackedItem(Head(items), st, activeIds, env),
                        activeIds, env)

syncInactiveDevices(st, activeIds, env) ==
  SyncTrackedBatch(st.trackingDevices, st, activeIds, env)

\* One item of the SYNC-NEW-DEVICES batch.
SyncNewItem(device, st, env) ==
  LET r == getCurrentMonthEnergy(device.ip_address, env)
      w == IF r.threw THEN [flags |-> st.flags, threw |-> FALSE]
           ELSE updateTrackingFlag(st.flags, device.usage_record_id, TRUE,
                                   env.flagOk[device.usage_record_id])
      threw == r.threw \/ w.threw
      t == IF threw THEN st.trackingDevices
           ELSE MapSet(st.trackingDevices, device.device_id,
                       [device_id |-> device.device_id,
                        usage_record_id |-> device.usage_record_id,
                        ip_address |-> device.ip_address,
                        consumption |-> device.consumption,
                        month_energy |-> r.month_energy])
  IN BatchCount([st EXCEPT !.flags = w.flags, !.trackingDevices = t,
                           !.added = @ \cup {device.device_id},
                           !.steps = Append(@, Step("add", device.device_id,
                                                    TRUE, ~r.threw))],
                executeDeviceOperation(threw))

\* Variant: the batch stops at the first item that fails.
RECURSIVE SyncNewBatch_StopsOnFailure(_, _, _)
SyncNewBatch_StopsOnFailure(items, st, env) ==
  IF items = <<>> THEN st
  ELSE LET nxt == SyncNewItem(Head(items), st, env)
       IN IF nxt.failureCount > st.failureCount THEN nxt
          ELSE SyncNewBatch_StopsOnFailure(Tail(items), nxt, env)

RECURSIVE SyncNewBatch(_, _, _)
SyncNewBatch(items, st, env) ==
  IF items = <<>> THEN st
  ELSE SyncNewBatch(Tail(items), SyncNewItem(Head(items), st, env), env)

syncActiveDevices(st, currentActiveDevices, env) ==
  LET newDevices == SelectSeq(currentActiveDevices,
                              LAMBDA d : ~MapHas(st.trackingDevices, d.device_id))
  IN IF newDevices = <<>> THEN st ELSE SyncNewBatch(newDevices, st, env)

\* The state a sync starts from: the tracker and the flags, the item counts
\* of its batches, and which devices each kind of item was run for.
SyncStart(tracker, flags) ==
  [trackingDevices |-> tracker, flags |-> flags,
   successCount |-> 0, failureCount |-> 0,
   removed |-> {}, refreshed |-> {}, added |-> {}, steps |-> <<>>,
   success |-> FALSE]

\* Variant: the new devices are added before the tracked ones are looked at.
MonitorSyncBody_AddsFirst(st, env) ==
  IF env.queryThrew THEN st
  ELSE syncInactiveDevices(syncActiveDevices(st, env.active, env),
                           ActiveIds(env.active), env)

\* Variant: a failed query is taken for an empty list of active devices.
MonitorSyncBody_EmptyListOnFailure(st, env) ==
  IF env.queryThrew
    THEN syncInactiveDevices(st, {},
                             [env EXCEPT !.flagOk = [u \in UsageRecords |-> TRUE]])
    ELSE syncActiveDevices(syncInactiveDevices(st, ActiveIds(env.active), env),
                           env.active, env)

\* The body of the MONITOR-SYNC operation; it throws only when the
\* active-device query does.
MonitorSyncBody(st, env) ==
  IF env.queryThrew THEN st
  ELSE syncActiveDevices(syncInactiveDevices(st, ActiveIds(env.active), env),
                         env.active, env)

\* What monitorAndSyncTracking returns (result.success): the results of the
\* two batches are not looked at.
SyncSuccess(queryThrew, st) == executeOperation(queryThrew).success

\* monitorAndSyncTracking: the state it leaves, with its return value in
\* the field success.
SyncReturn(st, queryThrew) == [st EXCEPT !.success = SyncSuccess(queryThrew, st)]

monitorAndSyncTracking(tracker, flags, env) ==
  SyncReturn(MonitorSyncBody(SyncStart(tracker, flags), env), env.queryThrew)

\* --------------------------------------------------------------- Finalizer
\* Variant: a negative difference is clamped to zero.
accumulatedValueOf_Clamped(trackedDevice) ==
  IF trackedDevice.month_energy < trackedDevice.consumption THEN 0
  ELSE trackedDevice.month_energy - trackedDevice.consumption

accumulatedValueOf(trackedDevice) ==
  trackedDevice.month_energy - trackedDevice.consumption

\* One item of the FINALIZE-MONTH-END batch (STORE-ACCUMULATED-VALUE).
\* Each commit is noted with the value handed over, whether the write went
\* through (ok) and whether the batch counted the item as a success (counted).
FinalizeItem(trackedDevice, st, commitOk) ==
  LET accumulatedValue == accumulatedValueOf(trackedDevice)
      ok == commitOk[trackedDevice.usage_record_id]
      w == storePreviousMonthAccumulated(st.flags, st.acc,
                                         trackedDevice.usage_record_id,
                                         accumulatedValue, ok)
      result == executeDeviceOperation(w.threw)
  IN BatchCount([st EXCEPT !.flags = w.flags, !.acc = w.acc,
                           !.commits = Append(@, [device_id |-> trackedDevice.device_id,
                                                  usage_record_id |-> trackedDevice.usage_record_id,
                                                  value |-> accumulatedValue,
                                                  ok |-> ok,
                                                  counted |-> result.success])],
                result)

\* Variant: the batch stops after the first commit that did not go through.
RECURSIVE FinalizeBatch_StopsOnFailure(_, _, _)
FinalizeBatch_StopsOnFailure(items, st, commitOk) ==
  IF items = <<>> THEN st
  ELSE IF ~commitOk[Head(items).usage_record_id]
         THEN FinalizeItem(Head(items), st, commitOk)
         ELSE FinalizeBatch_StopsOnFailure(Tail(items),
                                           FinalizeItem(Head(items), st, commitOk),
                                           commitOk)

RECURSIVE FinalizeBatch(_, _, _)
FinalizeBatch(items, st, commitOk) ==
  IF items = <<>> THEN st
  ELSE FinalizeBatch(Tail(items), FinalizeItem(Head(items), st, commitOk), commitOk)

\* Variant: only the devices whose commit went through are dropped.
TrackerAfterFinalize_KeepFailed(tracker, st) ==
  SelectSeq(tracker, LAMBDA e : \E i \in DOMAIN st.commits :
                                  /\ st.commits[i].device_id = e.device_id
                                  /\ ~st.commits[i].ok)

\* trackingDevices.clear() after the batch.
TrackerAfterFinalize(tracker, st) == <<>>

FinalizeStart(flags, acc) ==
  [flags |-> flags, acc |-> acc, successCount |-> 0, failureCount |-> 0,
   commits |-> <<>>, trackingDevices |-> <<>>, success |-> FALSE]

\* After the batch: the tracker is cleared, and the return value (field
\* success) is "the batch had no errors".
FinalizeReturn(tracker, st) ==
  [st EXCEPT !.trackingDevices = TrackerAfterFinalize(tracker, st),
             !.success = ~BatchResult(st).hasErrors]

finalizeMonthEndTracking(tracker, flags, acc, commitOk) ==
  FinalizeReturn(tracker, FinalizeBatch(tracker, FinalizeStart(flags, acc), commitOk))

\* Variant: the Finalizer is called only when the sync returned success.
FinalizerFollowsSync_OnlyOnSuccess(syncReturned) == syncReturned

\* The body of the FINALIZATION-MINUTE operation awaits the sync and then
\* calls the Finalizer; the value the sync returned is not looked at.
FinalizerFollowsSync(syncReturned) == TRUE

\* The Finalizer's part of the FINALIZATION-MINUTE body, from the state the
\* sync left.
FinalizationAfterSync(s, acc, commitOk) ==
  IF FinalizerFollowsSync(s.success)
    THEN finalizeMonthEndTracking(s.trackingDevices, s.flags, acc, commitOk)
    ELSE [FinalizeStart(s.flags, acc) EXCEPT !.trackingDevices = s.trackingDevices]

\* ------------------------------------------------------- Execution Ledger
EmptyMap == [k \in {} |-> TRUE]
LedgerHas(status, key) == key \in DOMAIN status
LedgerGet(status, key) == IF key \in DOMAIN status THEN {status[key]} ELSE {}
LedgerSet(status, key, v) ==
  [k \in (DOMAIN status) \cup {key} |-> IF k = key THEN v ELSE status[k]]

\* Variant: only a minute recorded as failed is skipped.
ShouldSkip_OnlyFailed(status, key) == LedgerGet(status, key) = {FALSE}

\* The guard in front of the per-minute action: true means "delay and continue".
ShouldSkip(status, key) ==
  LedgerHas(status, key) \/ LedgerGet(status, key) = {TRUE}

\* What a per-minute executeOperation wrapper hands to the ledger
\* (success.success): the inner function's return value plays no part.
MinuteSuccess(threw, returned) == executeOperation(threw).success

\* ------------------------------------------------------------------ inputs
DeviceOrders ==
  {s \in UNION {[1..n -> Devices] : n \in 0..Cardinality(Devices)} :
     \A i, j \in DOMAIN s : i # j => s[i] # s[j]}

Row(d, cons) ==
  [device_id |-> d, usage_record_id |-> UsageRecordOf(d),
   ip_address |-> IpOf(d), consumption |-> cons[d]]

ActiveLists ==
  {[i \in DOMAIN o |-> Row(o[i], c)] :
     o \in DeviceOrders, c \in [Devices -> BaselineValues]}

\* The usage records a sync writes the tracking flag of: tracked devices that
\* are not listed, and listed devices that are not tracked and whose energy
\* read worked.
FlagWrites(tracker, a, f) ==
  {UsageRecordOf(d) : d \in (Ids(tracker) \ ActiveIds(a)) \cup
                            {x \in ActiveIds(a) \ Ids(tracker) : IpOf(x) \notin f}}

\* Every answer the collaborators can give during one sync: the active-device
\* query throws or returns a list; each energy read (one per listed device)
\* fails or returns a value; each flag write goes through or not.
SyncEnvs(tracker) ==
  UNION {UNION {{[queryThrew |-> FALSE, active |-> a, energyFails |-> f,
                  energyVals |-> v, flagOk |-> fo] :
                   v \in [ActiveIps(a) \ f -> ReadingValues],
                   fo \in [FlagWrites(tracker, a, f) -> BOOLEAN]} :
                f \in SUBSET ActiveIps(a)} :
         a \in ActiveLists}
  \cup
  {[queryThrew |-> TRUE, active |-> <<>>, energyFails |-> {},
    energyVals |-> EmptyMap, flagOk |-> EmptyMap]}

\* Whether each commit of an accumulated value goes through: one commit per
\* device in the tracker when the Finalizer starts.
CommitOks(tracker) ==
  [{tracker[i].usage_record_id : i \in DOMAIN tracker} -> BOOLEAN]

\* ------------------------------------------------- observation of one step
NoSync ==
  [ran |-> FALSE, queryThrew |-> FALSE, activeIds |-> {}, before |-> <<>>,
   after |-> <<>>, returned |-> EmptyMap, readFailed |-> {}, flagFailed |-> {},
   reported |-> EmptyMap, removed |-> {}, refreshed |-> {}, added |-> {},
   steps |-> <<>>, failureCount |-> 0, success |-> FALSE]

NoFinal ==
  [ran |-> FALSE, before |-> <<>>, commits |-> <<>>, failureCount |-> 0,
   success |-> FALSE]

SyncSeen(tracker, env, s) ==
  LET ids == ActiveIds(env.active)
      rf == {d \in ids : IpOf(d) \in env.energyFails}
  IN [ran |-> TRUE, queryThrew |-> env.queryThrew, activeIds |-> ids,
      before |-> tracker, after |-> s.trackingDevices,
      returned |-> [d \in ids \ rf |-> env.energyVals[IpOf(d)]],
      readFailed |-> rf,
      flagFailed |-> {u \in DOMAIN env.flagOk : ~env.flagOk[u]},
      reported |-> [d \in ids |->
                      env.active[CHOOSE i \in DOMAIN env.active :
                                   env.active[i].device_id = d].consumption],
      removed |-> s.removed, refreshed |-> s.refreshed, added |-> s.added,
      steps |-> s.steps,
      failureCount |-> s.failureCount, success |-> s.success]

FinalSeen(tracker, f) ==
  [ran |-> TRUE, before |-> tracker, commits |-> f.commits,
   failureCount |-> f.failureCount, success |-> f.success]

\* today: <<day of month, last day of that month>> as read when the invocation
\* started (noted by the invocation step only).
NoDate == <<0, 0>>
Seen(step, key, sync, final, recorded) ==
  [step |-> step, key |-> key, sync |-> sync, final |-> final,
   recorded |-> recorded, today |-> NoDate]

\* Nothing done yet in the current loop iteration.
Nothing == Seen("none", <<23, 55>>, NoSync, NoFinal, {})

MonthLengths == {28, 29, 30, 31}
Dates(lastDayOfMonth) == {1, lastDayOfMonth - 1, lastDayOfMonth}

\* Variant: the 30th counts as the last day of every month.
IsLastDayOfMonth_Always30(date, lastDayOfMonth) == date = 30

\* now.getDate() === lastDayOfMonth
IsLastDayOfMonth(date, lastDayOfMonth) == date = lastDayOfMonth

SeenInvoke(step, date, lastDayOfMonth) ==
  [Seen(step, <<23, 55>>, NoSync, NoFinal, {})
     EXCEPT !.today = <<date, lastDayOfMonth>>]

\* --------------------------------------------------------------------- Init
Init ==
  /\ pc = "idle"
  /\ clock = 0
  /\ minuteExecutionStatus = EmptyMap
  /\ trackingDevices = <<>>
  /\ is_tracking_previous_month = [u \in UsageRecords |-> FALSE]
  /\ previous_month_accumulated = [u \in UsageRecords |-> 0]
  /\ finalizeCalls = 0
  /\ minuteFailed = FALSE
  /\ last = Nothing

\* ---------------------------------------------------------------- Scheduler
\* The cron trigger fires on a day that is not the last of its month:
\* checkAndPollTapoDevices returns at once.
InvokeNotLastDay ==
  /\ pc \in {"idle", "returned"}
  /\ \E lastDayOfMonth \in MonthLengths : \E date \in Dates(lastDayOfMonth) :
       /\ ~IsLastDayOfMonth(date, lastDayOfMonth)
       /\ last' = SeenInvoke("notLastDay", date, lastDayOfMonth)
  /\ UNCHANGED <<pc, clock, minuteExecutionStatus, trackingDevices,
                 is_tracking_previous_month, previous_month_accumulated,
                 finalizeCalls, minuteFailed>>

\* The cron trigger fires at 23:55 of a last day of month: a fresh ledger,
\* and the loop is entered.
InvokeLastDay ==
  /\ pc = "idle"
  /\ \E lastDayOfMonth \in MonthLengths : \E date \in Dates(lastDayOfMonth) :
       /\ IsLastDayOfMonth(date, lastDayOfMonth)
       /\ last' = SeenInvoke("enter", date, lastDayOfMonth)
  /\ pc' = "loop"
  /\ clock' = 0
  /\ minuteExecutionStatus' = EmptyMap
  /\ finalizeCalls' = 0
  /\ minuteFailed' = FALSE
  /\ UNCHANGED <<trackingDevices, is_tracking_previous_month,
                 previous_month_accumulated>>

\* A minute boundary passes.  The loop reads the clock only at the top of an
\* iteration, so a boundary crossed anywhere in the iteration (in the action
\* or in the delay) shows there; any number may pass between two reads.
ClockTick ==
  /\ pc = "loop"
  /\ clock < MaxClock
  /\ clock' = clock + 1
  /\ minuteFailed' = FALSE
  /\ UNCHANGED <<pc, minuteExecutionStatus, trackingDevices,
                 is_tracking_previous_month, previous_month_accumulated,
                 finalizeCalls, last>>

\* The invocation is over: checkAndPollTapoDevices returns.
Return ==
  /\ pc = "done"
  /\ pc' = "returned"
  /\ last' = Nothing
  /\ UNCHANGED <<clock, minuteExecutionStatus, trackingDevices,
                 is_tracking_previous_month, previous_month_accumulated,
                 finalizeCalls, minuteFailed>>

\* await delay() is over: back to the top of the loop.
Delay ==
  /\ pc = "delay"
  /\ pc' = "loop"
  /\ last' = Nothing
  /\ UNCHANGED <<clock, minuteExecutionStatus, trackingDevices,
                 is_tracking_previous_month, previous_month_accumulated,
                 finalizeCalls, minuteFailed>>

\* The minute key is already in the ledger: delay and continue.
TickSkip ==
  /\ pc = "loop"
  /\ InWindow(getMinutes(clock))
  /\ ShouldSkip(minuteExecutionStatus, minuteKeyOf(clock))
  /\ pc' = "delay"
  /\ last' = Seen("skip", minuteKeyOf(clock), NoSync, NoFinal, {})
  /\ UNCHANGED <<clock, minuteExecutionStatus, trackingDevices,
                 is_tracking_previous_month, previous_month_accumulated,
                 finalizeCalls, minuteFailed>>

\* MONITORING-MINUTE (55..58): one sync, its wrapper's success into the ledger.
TickMonitoring ==
  /\ pc = "loop"
  /\ InWindow(getMinutes(clock))
  /\ ~ShouldSkip(minuteExecutionStatus, minuteKeyOf(clock))
  /\ ~IsFinalizationMinute(getMinutes(clock))
  /\ \E env \in SyncEnvs(trackingDevices) :
     \E s \in {monitorAndSyncTracking(trackingDevices, is_tracking_previous_month, env)} :
     \E success \in {MinuteSuccess(FALSE, s.success)} :
       /\ trackingDevices' = s.trackingDevices
       /\ is_tracking_previous_month' = s.flags
       /\ minuteExecutionStatus' =
            LedgerSet(minuteExecutionStatus, minuteKeyOf(clock), success)
       /\ minuteFailed' = ~s.success
       /\ last' = Seen("monitor", minuteKeyOf(clock),
                       SyncSeen(trackingDevices, env, s), NoFinal, {success})
  /\ pc' = "delay"
  /\ UNCHANGED <<clock, previous_month_accumulated, finalizeCalls>>

\* FINALIZATION-MINUTE (59): a sync, then the Finalizer, then break.
TickFinalization ==
  /\ pc = "loop"
  /\ InWindow(getMinutes(clock))
  /\ ~ShouldSkip(minuteExecutionStatus, minuteKeyOf(clock))
  /\ IsFinalizationMinute(getMinutes(clock))
  /\ \E env \in SyncEnvs(trackingDevices) :
     \E s \in {monitorAndSyncTracking(trackingDevices, is_tracking_previous_month, env)} :
     \E commitOk \in CommitOks(s.trackingDevices) :
     \E f \in {FinalizationAfterSync(s, previous_month_accumulated, commitOk)} :
     \E success \in {MinuteSuccess(FALSE, f.success)} :
       /\ trackingDevices' = f.trackingDevices
       /\ is_tracking_previous_month' = f.flags
       /\ previous_month_accumulated' = f.acc
       /\ minuteExecutionStatus' =
            LedgerSet(minuteExecutionStatus, minuteKeyOf(clock), success)
       /\ minuteFailed' = ~(s.success /\ f.success)
       /\ last' = Seen("final", minuteKeyOf(clock),
                       SyncSeen(trackingDevices, env, s),
                       IF FinalizerFollowsSync(s.success)
                         THEN FinalSeen(s.trackingDevices, f) ELSE NoFinal,
                       {success})
       /\ finalizeCalls' = IF FinalizerFollowsSync(s.success)
                             THEN finalizeCalls + 1 ELSE finalizeCalls
  /\ pc' = "done"
  /\ UNCHANGED clock

\* A tick reads minute 0: the loop is left.
TickNewHour ==
  /\ pc = "loop"
  /\ ~InWindow(getMinutes(clock))
  /\ IsNewHour(getMinutes(clock))
  /\ pc' = "done"
  /\ last' = Seen("newHour", minuteKeyOf(clock), NoSync, NoFinal, {})
  /\ UNCHANGED <<clock, minuteExecutionStatus, trackingDevices,
                 is_tracking_previous_month, previous_month_accumulated,
                 finalizeCalls, minuteFailed>>

\* A tick reads a minute outside the window that is not 0: delay.
TickOutsideWindow ==
  /\ pc = "loop"
  /\ ~InWindow(getMinutes(clock))
  /\ ~IsNewHour(getMinutes(clock))
  /\ pc' = "delay"
  /\ last' = Seen("outside", minuteKeyOf(clock), NoSync, NoFinal, {})
  /\ UNCHANGED <<clock, minuteExecutionStatus, trackingDevices,
                 is_tracking_previous_month, previous_month_accumulated,
                 finalizeCalls, minuteFailed>>

Next ==
  \/ InvokeNotLastDay
  \/ InvokeLastDay
  \/ ClockTick
  \/ Delay
  \/ Return
  \/ TickSkip
  \/ TickMonitoring
  \/ TickFinalization
  \/ TickNewHour
  \/ TickOutsideWindow

Spec == Init /\ [][Next]_vars


\* ==================================================================== claims
\* A step that is one tick of the polling loop: every tick leaves the top of
\* the loop (for the delay or for the exit); a clock step does not.
IsTick == pc = "loop" /\ pc' # "loop"

\* C1: a minute whose action failed stays eligible: when a later tick of the
\* same invocation reads the same (hour, minute), that minute's action is
\* run again.
C1_FailedMinuteIsRetried ==
  [][(IsTick /\ InWindow(getMinutes(clock)) /\ minuteFailed)
       => (last'.sync.ran /\ last'.key = minuteKeyOf(clock))]_vars

\* C2: once a minute key is recorded as successful, no later tick reading the
\* same key invokes the Sync Engine or the Finalizer (and nothing they own
\* changes).
C2_SuccessfulMinuteNotReprocessed ==
  [][(IsTick /\ LedgerGet(minuteExecutionStatus, minuteKeyOf(clock)) = {TRUE})
       => /\ ~last'.sync.ran
          /\ ~last'.final.ran
          /\ UNCHANGED <<trackingDevices, is_tracking_previous_month,
                         previous_month_accumulated, minuteExecutionStatus>>]_vars

C2_Witness ==
  /\ last.step = "skip"
  /\ LedgerGet(minuteExecutionStatus, last.key) = {TRUE}

\* C3: in one invocation the Finalizer is invoked at most once, and only on
\* a tick whose minute is 59.
C3_FinalizerOnceAtMinute59 ==
  /\ finalizeCalls <= 1
  /\ last.final.ran => (last.key[2] = 59 /\ finalizeCalls = 1)

C3_Witness ==
  /\ last.final.ran
  /\ finalizeCalls = 1
  /\ pc = "done"

\* C4: the ledger entry written for a minute is the outcome of that minute's
\* action: for 55..58 what the Sync Engine returned, for 59 "the Sync Engine
\* and the Finalizer both returned success".
C4_LedgerReflectsOutcome ==
  /\ last.step = "monitor" => last.recorded = {last.sync.success}
  /\ last.step = "final" =>
       last.recorded = {last.sync.success /\ last.final.success}

\* C5: every device in the tracker has its tracking flag set in the registry.
C5_TrackedImpliesFlagSet ==
  \A i \in DOMAIN trackingDevices :
    is_tracking_previous_month[trackingDevices[i].usage_record_id]

\* C6: after a sync tick recorded as successful, every device the registry
\* listed is in the tracker, with the reading the provider returned for it
\* at that tick.
C6_ActiveTrackedAfterSuccessfulSync ==
  (last.sync.ran /\ ~last.sync.queryThrew /\ last.recorded = {TRUE}) =>
    \A d \in last.sync.activeIds :
      /\ MapHas(last.sync.after, d)
      /\ d \in DOMAIN last.sync.returned
      /\ MapGet(last.sync.after, d).month_energy = last.sync.returned[d]

C8_SyncSuccessOnlyIfAllItemsSucceeded ==
  (last.sync.ran /\ last.sync.success) => last.sync.failureCount = 0

\* C9: after a Finalizer invocation the tracker is empty, whatever the
\* outcome of each commit.
C9_TrackerEmptyAfterFinalizer ==
  last.final.ran => trackingDevices = <<>>

C9_Witness ==
  /\ last.final.ran
  /\ trackingDevices = <<>>
  /\ \E i, j \in DOMAIN last.final.commits :
       last.final.commits[i].ok /\ ~last.final.commits[j].ok

\* C10: for every device in the tracker when the Finalizer starts, the value
\* handed to the commit is its month_energy minus its consumption, unclamped.
C10_CommittedValueIsDifference ==
  last.final.ran =>
    /\ Len(last.final.commits) = Len(last.final.before)
    /\ \A i \in DOMAIN last.final.before :
         /\ last.final.commits[i].usage_record_id = last.final.before[i].usage_record_id
         /\ last.final.commits[i].value =
              last.final.before[i].month_energy - last.final.before[i].consumption

C10_Witness ==
  /\ last.final.ran
  /\ \E i, j \in DOMAIN last.final.commits :
       /\ last.final.commits[i].value = 15
       /\ last.final.before[i].consumption = 5
       /\ last.final.before[i].month_energy = 20
       /\ last.final.commits[j].value < 0

\* C11: a tracked device whose energy read at minute 59 fails is still
\* committed, with the value computed from the reading the tracker held, and
\* the batch counts it as a failure exactly when that write fails.
C11_FallbackCommitCounted ==
  last.final.ran =>
    \A d \in last.sync.readFailed \cap Ids(last.sync.before) :
      \E i \in DOMAIN last.final.commits :
        /\ last.final.commits[i].device_id = d
        /\ last.final.commits[i].value =
             MapGet(last.sync.before, d).month_energy
               - MapGet(last.sync.before, d).consumption
        /\ last.final.commits[i].counted = last.final.commits[i].ok

\* C12: the Finalizer returns success only if no device failed: a failed
\* write of an accumulated value makes it return failure.
C12_FinalizerFailsOnFailedWrite ==
  (last.final.ran /\ \E i \in DOMAIN last.final.commits : ~last.final.commits[i].ok)
    => ~last.final.success

\* C13: a device that a sync of minutes 55..58 put into the tracker and that
\* the minute-59 sync still lists is committed exactly once in the
\* invocation: the Finalizer runs once and hands over one commit for it.
CommitsFor(d) ==
  {i \in DOMAIN last.final.commits : last.final.commits[i].device_id = d}

C13_AddedAndActiveCommittedOnce ==
  last.final.ran =>
    /\ finalizeCalls = 1
    /\ \A d \in Ids(last.sync.before) \cap last.sync.activeIds :
         Cardinality(CommitsFor(d)) = 1

C13_Witness ==
  /\ last.final.ran
  /\ \E d \in Ids(last.sync.before) \cap last.sync.activeIds :
       /\ Cardinality(CommitsFor(d)) = 1
       /\ d \in last.sync.refreshed

\* C14: an invocation on a day that is not the last of its month returns at
\* once: no sync, no Finalizer, and the tracker, the registry and the loop
\* state are as before.
C14_NotLastDayNoEffect ==
  [][(last'.step \in {"notLastDay", "enter"} /\ last' # last
        /\ last'.today[1] # last'.today[2])
       => /\ ~last'.sync.ran
          /\ ~last'.final.ran
          /\ UNCHANGED <<pc, clock, trackingDevices, is_tracking_previous_month,
                         previous_month_accumulated, minuteExecutionStatus,
                         finalizeCalls>>]_vars

C14_Witness ==
  /\ last.step = "notLastDay"
  /\ last.today[1] # last.today[2]
  /\ trackingDevices # <<>>

\* C15: when an invocation on a last day of month has left its loop, the
\* tracker is empty and the Finalizer has cleared it exactly once.
C15_TrackerClearedOncePerCycle ==
  pc = "done" => (trackingDevices = <<>> /\ finalizeCalls = 1)

\* C16: a sync whose active-device query answered runs an item for every
\* device of the tracker snapshot and for every listed device that is not
\* tracked, whichever of these items fail.
C16_EveryDeviceProcessed ==
  (last.sync.ran /\ ~last.sync.queryThrew) =>
    /\ last.sync.removed \cup last.sync.refreshed = Ids(last.sync.before)
    /\ last.sync.added = last.sync.activeIds \ Ids(last.sync.before)

C16_Witness ==
  /\ last.sync.ran
  /\ last.sync.failureCount = 1
  /\ Cardinality(last.sync.added) = 2
  /\ Cardinality(Ids(last.sync.after)) = 1

\* C17: the Finalizer attempts a commit for every device that is in the
\* tracker when it starts, also for those that come after a failed commit.
C17_CommitAttemptedForAll ==
  last.final.ran =>
    /\ Len(last.final.commits) = Len(last.final.before)
    /\ \A i \in DOMAIN last.final.before :
         last.final.commits[i].device_id = last.final.before[i].device_id

C17_Witness ==
  /\ last.final.ran
  /\ Len(last.final.commits) = 2
  /\ ~last.final.commits[1].ok

\* C18: a tick leaves the loop exactly when its step ran the minute-59 action
\* or it reads minute 0; a tick of minutes 55..58 goes on to the delay,
\* whatever its action returned.
C18_LoopExits ==
  [][IsTick =>
       /\ (pc' = "done") <=> (last'.final.ran \/ getMinutes(clock) = 0)
       /\ (pc' = "done") <=> (getMinutes(clock) \in {59, 0})
       /\ getMinutes(clock) \in 55..58 => pc' = "delay"]_vars

C18_Witness ==
  /\ pc = "delay"
  /\ last.step = "monitor"
  /\ last.sync.ran
  /\ ~last.sync.success

\* C19: a tick that reads a time after the hour of the window has rolled over
\* leaves the loop.
C19_LeavesAtRollover ==
  [][(IsTick /\ getHours(clock) # getHours(0)) => pc' = "done"]_vars

\* C20: the minute-59 step runs the sync and then the Finalizer, which starts
\* from the tracker that sync left, also when the sync returned failure; the
\* Finalizer never runs in a step without a sync before it.
C20_SyncThenFinalizer ==
  /\ last.final.ran => (last.sync.ran /\ last.final.before = last.sync.after)
  /\ (last.sync.ran /\ last.key[2] = 59) => last.final.ran

C20_Witness ==
  /\ last.final.ran
  /\ ~last.sync.success
  /\ last.final.before # <<>>

\* C21: in a sync every remove and refresh step comes before every add step,
\* and a device the sync adds has exactly one step in it, the add, with one
\* energy read.
StepsFor(d) == {i \in DOMAIN last.sync.steps : last.sync.steps[i].device_id = d}

C21_TrackedBeforeNew ==
  last.sync.ran =>
    /\ \A i, j \in DOMAIN last.sync.steps :
         (last.sync.steps[i].op = "add" /\ last.sync.steps[j].op # "add") => j < i
    /\ \A d \in last.sync.added \cup (Ids(last.sync.after) \ Ids(last.sync.before)) :
         /\ Cardinality(StepsFor(d)) = 1
         /\ \A i \in StepsFor(d) : last.sync.steps[i].op = "add" /\ last.sync.steps[i].read
         /\ d \notin last.sync.refreshed

C21_Witness ==
  /\ last.sync.ran
  /\ Len(last.sync.steps) = 2
  /\ last.sync.steps[1].op = "refresh"
  /\ last.sync.steps[2].op = "add"
  /\ last.sync.steps[2].device_id \in Ids(last.sync.after)

\* C22: a tracked device that is still listed and whose energy read fails in
\* a sync is in the tracker after the sync with the entry it had before.
C22_FailedRefreshKeepsEntry ==
  last.sync.ran =>
    \A d \in Ids(last.sync.before) \cap last.sync.activeIds \cap last.sync.readFailed :
      /\ MapHas(last.sync.after, d)
      /\ MapGet(last.sync.after, d) = MapGet(last.sync.before, d)

C22_Witness ==
  /\ last.sync.ran
  /\ \E d \in Ids(last.sync.before) \cap last.sync.activeIds \cap last.sync.readFailed :
       /\ d \in last.sync.refreshed
       /\ MapGet(last.sync.after, d).month_energy # 0

\* C23: a device that is in the tracker before and after a step, or before
\* and after a sync, keeps its consumption (the baseline), usage_record_id
\* and ip_address, whatever baseline the registry reports.
SameIdentity(e1, e2) ==
  /\ e1.consumption = e2.consumption
  /\ e1.usage_record_id = e2.usage_record_id
  /\ e1.ip_address = e2.ip_address

C23_BaselineFrozen ==
  [][/\ \A d \in Ids(trackingDevices) \cap Ids(trackingDevices') :
          SameIdentity(MapGet(trackingDevices, d), MapGet(trackingDevices', d))
     /\ last'.sync.ran =>
          \A d \in Ids(last'.sync.before) \cap Ids(last'.sync.after) :
            SameIdentity(MapGet(last'.sync.before, d), MapGet(last'.sync.after, d))]_vars

C23_Witness ==
  /\ last.sync.ran
  /\ \E d \in last.sync.refreshed \cap Ids(last.sync.after) :
       /\ last.sync.reported[d] # MapGet(last.sync.before, d).consumption
       /\ MapGet(last.sync.after, d).month_energy
            # MapGet(last.sync.before, d).month_energy
       /\ MapGet(last.sync.after, d).consumption
            = MapGet(last.sync.before, d).consumption

\* C24: a sync whose active-device query throws leaves the tracker as it was,
\* runs no item (no energy read, no flag write) and returns failure.
C24_QueryFailureNoEffect ==
  (last.sync.ran /\ last.sync.queryThrew) =>
    /\ last.sync.after = last.sync.before
    /\ last.sync.steps = <<>>
    /\ ~last.sync.success

C24_Witness ==
  /\ last.sync.ran
  /\ last.sync.queryThrew
  /\ last.sync.before # <<>>
  /\ last.step = "monitor"

\* C25: when the invocation has left its loop, every usage record whose
\* tracking flag is set belongs to a device that is in the tracker.
C25_NoFlagLeftWithoutTracker ==
  pc = "done" =>
    \A d \in Devices :
      is_tracking_previous_month[UsageRecordOf(d)] => MapHas(trackingDevices, d)

====
